---- MODULE Spec2Model ----
(***************************************************************************)
(* Registration state machine, confidence-gated extraction pipeline and    *)
(* geocoding validator of the ZP Pune WhatsApp assistant.                  *)
(*                                                                         *)
(* Conventions.  JavaScript strings that the code inspects (village names, *)
(* address components) are sequences of one-character strings.  null,      *)
(* undefined and the empty string are the empty sequence: the code only    *)
(* ever tests these values for truthiness.  Confidences in 0.0 .. 1.0 are  *)
(* integers in hundredths (0.7 is 70); latitudes and longitudes are        *)
(* integers in tenths of a degree (18.0 is 180); time is in whole hours.   *)
(***************************************************************************)
EXTENDS Integers, Sequences, FiniteSets, TLC

VARIABLES
    citizen,              \* citizens/{whatsappNumber} document, NULL before creation
    states,               \* citizens/{whatsappNumber}/states sub-collection, in creation order
    geocodingCollection,  \* geocoding cache collection, keyed by cache key
    now,                  \* wall clock, hours
    msgCount,             \* inbound messages accepted so far
    proc,                 \* per handler: position and locals of processMessage
    lastGeocode,          \* log of the most recent direct geocodeVillage call
    faults                \* store and transport operations that have failed so far

vars == <<citizen, states, geocodingCollection, now, msgCount, proc, lastGeocode, faults>>

NULL == <<>>

Truthy(v) == v # NULL

Min(a, b) == IF a <= b THEN a ELSE b

(***************************************************************************)
(* Bounds of the model.                                                    *)
(***************************************************************************)
MaxMessages == 3
MaxTime == 36
MaxFaults == 1
MaxConcurrent == 2

Procs == {1, 2}

(***************************************************************************)
(* Strings.                                                                *)
(***************************************************************************)
LowerOf(c) ==
    CASE c = "S" -> "s"
      [] c = "M" -> "m"
      [] c = "P" -> "p"
      [] c = "I" -> "i"
      [] OTHER -> c

toLowerCase(s) == [i \in 1..Len(s) |-> LowerOf(s[i])]

RECURSIVE trimStart(_)
trimStart(s) ==
    IF s # <<>> /\ Head(s) = " " THEN trimStart(Tail(s)) ELSE s

RECURSIVE trimEnd(_)
trimEnd(s) ==
    IF s # <<>> /\ s[Len(s)] = " " THEN trimEnd(SubSeq(s, 1, Len(s) - 1)) ELSE s

trim(s) == trimEnd(trimStart(s))

includes(hay, needle) ==
    \E i \in 1..(Len(hay) - Len(needle) + 1) :
        SubSeq(hay, i, i + Len(needle) - 1) = needle

Saswad == <<"S", "a", "s", "w", "a", "d">>
SaswadPadded == <<" ", "s", "a", "s", "w", "a", "d", " ">>
Mumbai == <<"M", "u", "m", "b", "a", "i">>
Purandar == <<"P", "u", "r", "a", "n", "d", "a", "r">>
Pune == <<"P", "u", "n", "e">>
Maharashtra == <<"M", "a", "h", "a", "r", "a", "s", "h", "t", "r", "a">>
India == <<"I", "n", "d", "i", "a">>
CommaSpace == <<",", " ">>

VillageNames == {Saswad, SaswadPadded}

Languages == {"en", "mr"}

\* what processMessage makes of an inbound message: a text (text,
\* interactive or button message with a text), an empty messageText, or a
\* message of another type
MessageKinds == {"text", "empty", "unsupported"}

\* A localized user-facing text: language === 'mr' ? <Marathi> : <English>
Localized(id, language) ==
    [text |-> id, lang |-> IF language = "mr" THEN "mr" ELSE "en"]

(***************************************************************************)
(* Geocoding validator.                                                    *)
(***************************************************************************)
PUNE_ZP_BOUNDS ==
    [northeast |-> [lat |-> 195, lng |-> 750],
     southwest |-> [lat |-> 180, lng |-> 735]]

CacheTtlHours == 24

\* the check without its western edge
isLocationInPuneZP_NoWest(location) ==
    /\ location.lat >= PUNE_ZP_BOUNDS.southwest.lat
    /\ location.lat <= PUNE_ZP_BOUNDS.northeast.lat
    /\ location.lng <= PUNE_ZP_BOUNDS.northeast.lng

isLocationInPuneZP(location) ==
    /\ location.lat >= PUNE_ZP_BOUNDS.southwest.lat
    /\ location.lat <= PUNE_ZP_BOUNDS.northeast.lat
    /\ location.lng >= PUNE_ZP_BOUNDS.southwest.lng
    /\ location.lng <= PUNE_ZP_BOUNDS.northeast.lng

Component(long, short, types) ==
    [long_name |-> long, short_name |-> short, types |-> types]

\* Results the provider can put first in response.data.results.
ResultSaswad ==
    [place_id |-> "saswad",
     formatted_address |-> Saswad \o CommaSpace \o Maharashtra,
     address_components |->
        << Component(Saswad, Saswad, {"locality", "political"}),
           Component(Purandar, Purandar, {"administrative_area_level_3", "political"}),
           Component(Pune, Pune, {"administrative_area_level_2", "political"}),
           Component(Maharashtra, <<"M", "H">>, {"administrative_area_level_1", "political"}),
           Component(India, <<"I", "N">>, {"country", "political"}) >>,
     geometry |-> [location |-> [lat |-> 183, lng |-> 740],
                   location_type |-> "APPROXIMATE"]]

\* the district itself, what the provider falls back to for an unknown place
ResultPuneDistrict ==
    [place_id |-> "pune",
     formatted_address |-> Pune \o CommaSpace \o Maharashtra,
     address_components |->
        << Component(Pune, Pune, {"administrative_area_level_2", "political"}),
           Component(Maharashtra, <<"M", "H">>, {"administrative_area_level_1", "political"}) >>,
     geometry |-> [location |-> [lat |-> 195, lng |-> 735],
                   location_type |-> "GEOMETRIC_CENTER"]]

ResultMumbai ==
    [place_id |-> "mumbai",
     formatted_address |-> Mumbai \o CommaSpace \o Maharashtra,
     address_components |->
        << Component(Mumbai, Mumbai, {"locality", "political"}),
           Component(Maharashtra, <<"M", "H">>, {"administrative_area_level_1", "political"}) >>,
     geometry |-> [location |-> [lat |-> 191, lng |-> 729],
                   location_type |-> "APPROXIMATE"]]

\* a result whose geometry carries no location
ResultNoLocation ==
    [ResultSaswad EXCEPT !.place_id = "nolocation",
                         !.geometry.location = NULL]

\* a result that shares nothing with the search term, the district or the
\* state and carries no location_type: its relevance score is 0
ResultUnscored ==
    [place_id |-> "unscored",
     formatted_address |-> Mumbai,
     address_components |-> << Component(Mumbai, Mumbai, {"locality", "political"}) >>,
     geometry |-> [location |-> [lat |-> 185, lng |-> 739],
                   location_type |-> ""]]

ProviderResults ==
    {ResultSaswad, ResultPuneDistrict, ResultMumbai, ResultNoLocation, ResultUnscored}

\* What one axios.get to the provider can do: throw, answer without
\* results, or answer status OK with a first result.
ProviderResponses ==
    {[kind |-> "error"], [kind |-> "zero"]}
        \cup {[kind |-> "ok", result |-> r] : r \in ProviderResults}

\* searchQueries, by position
Templates == 1..4

ComponentScore(component, searchLower) ==
    LET longName == toLowerCase(component.long_name)
        shortName == toLowerCase(component.short_name)
    IN  (IF longName = searchLower \/ shortName = searchLower THEN 100
         ELSE IF includes(longName, searchLower) \/ includes(shortName, searchLower) THEN 50
         ELSE 0)
      + (IF "administrative_area_level_2" \in component.types
            /\ includes(longName, toLowerCase(Pune)) THEN 30 ELSE 0)
      + (IF "administrative_area_level_1" \in component.types
            /\ includes(longName, toLowerCase(Maharashtra)) THEN 20 ELSE 0)

RECURSIVE SumComponentScores(_, _)
SumComponentScores(components, searchLower) ==
    IF components = <<>> THEN 0
    ELSE ComponentScore(Head(components), searchLower)
            + SumComponentScores(Tail(components), searchLower)

calculateRelevanceScore(result, searchTerm) ==
    LET searchLower == toLowerCase(searchTerm)
        addressLower == toLowerCase(result.formatted_address)
    IN  SumComponentScores(result.address_components, searchLower)
      + (IF includes(addressLower, searchLower) THEN 25 ELSE 0)
      + (CASE result.geometry.location_type = "ROOFTOP" -> 20
           [] result.geometry.location_type = "RANGE_INTERPOLATED" -> 15
           [] result.geometry.location_type = "GEOMETRIC_CENTER" -> 10
           [] result.geometry.location_type = "APPROXIMATE" -> 5
           [] OTHER -> 0)

\* calculateRelevanceScore over the model's inputs, evaluated once
RelevanceScore ==
    [r \in ProviderResults, n \in VillageNames |-> calculateRelevanceScore(r, n)]

NoAdministrativeDetails ==
    [village |-> NULL, taluka |-> NULL, district |-> NULL,
     state |-> NULL, country |-> NULL, pincode |-> NULL]

RECURSIVE AssignAdministrative(_, _)
AssignAdministrative(details, components) ==
    IF components = <<>> THEN details
    ELSE LET component == Head(components)
             types == component.types
             next ==
                IF "locality" \in types \/ "sublocality" \in types
                    THEN [details EXCEPT !.village = component.long_name]
                ELSE IF "administrative_area_level_3" \in types
                    THEN [details EXCEPT !.taluka = component.long_name]
                ELSE IF "administrative_area_level_2" \in types
                    THEN [details EXCEPT !.district = component.long_name]
                ELSE IF "administrative_area_level_1" \in types
                    THEN [details EXCEPT !.state = component.long_name]
                ELSE IF "country" \in types
                    THEN [details EXCEPT !.country = component.long_name]
                ELSE IF "postal_code" \in types
                    THEN [details EXCEPT !.pincode = component.long_name]
                ELSE details
         IN  AssignAdministrative(next, Tail(components))

extractAdministrativeDetails(result) ==
    AssignAdministrative(NoAdministrativeDetails, result.address_components)

CacheKey(villageName) == trim(toLowerCase(villageName))

CacheKeys == {CacheKey(n) : n \in VillageNames}

\* cacheGeocode: the write is attempted once, a failure is swallowed
cacheGeocode(coll, villageName, result, clock, writeOK) ==
    IF writeOK
        THEN [coll EXCEPT ![CacheKey(villageName)] =
                [villageName |-> villageName, result |-> result, cachedAt |-> clock]]
        ELSE coll

\* the lookup that takes every entry for expired
getCachedGeocode_NeverFresh(coll, villageName, clock, readOK, deleteOK) ==
    LET cacheKey == CacheKey(villageName)
    IN  IF readOK /\ coll[cacheKey] # NULL /\ deleteOK
            THEN [result |-> NULL, coll |-> [coll EXCEPT ![cacheKey] = NULL]]
            ELSE [result |-> NULL, coll |-> coll]

\* the lookup that still serves an entry of exactly 24 hours
getCachedGeocode_LateExpiry(coll, villageName, clock, readOK, deleteOK) ==
    LET cacheKey == CacheKey(villageName)
        data == coll[cacheKey]
    IN  IF ~readOK THEN [result |-> NULL, coll |-> coll]
        ELSE IF data = NULL THEN [result |-> NULL, coll |-> coll]
        ELSE IF clock - data.cachedAt <= CacheTtlHours
            THEN [result |-> data.result, coll |-> coll]
        ELSE IF deleteOK
            THEN [result |-> NULL, coll |-> [coll EXCEPT ![cacheKey] = NULL]]
        ELSE [result |-> NULL, coll |-> coll]

\* getCachedGeocode: the cached result or NULL, and the collection afterwards
getCachedGeocode(coll, villageName, clock, readOK, deleteOK) ==
    LET cacheKey == CacheKey(villageName)
        data == coll[cacheKey]
    IN  IF ~readOK THEN [result |-> NULL, coll |-> coll]
        ELSE IF data = NULL THEN [result |-> NULL, coll |-> coll]
        ELSE IF clock - data.cachedAt < CacheTtlHours
            THEN [result |-> data.result, coll |-> coll]
        ELSE IF deleteOK
            THEN [result |-> NULL, coll |-> [coll EXCEPT ![cacheKey] = NULL]]
        ELSE [result |-> NULL, coll |-> coll]

\* one iteration of the for loop over searchQueries: the best result and
\* the highest score after the provider answered the current query
ScoreResponse(best, response, villageName) ==
    IF response.kind = "ok"
        /\ RelevanceScore[response.result, villageName] > best.highestScore
        THEN [bestResult |-> response.result,
              highestScore |-> RelevanceScore[response.result, villageName]]
        ELSE best

NotFoundOutcome(language) ==
    [success |-> FALSE, error |-> "Village not found",
     message |-> Localized("village_not_found", language)]

OutOfBoundsOutcome(bestResult, language) ==
    [success |-> FALSE, error |-> "Village not in Pune ZP",
     location |-> bestResult.geometry.location,
     address |-> bestResult.formatted_address,
     message |-> Localized("village_not_in_pune_zp", language)]

ServiceErrorOutcome(language) ==
    [success |-> FALSE, error |-> "Geocoding service error",
     message |-> Localized("geocoding_technical_issue", language)]

SuccessOutcome(villageName, bestResult, highestScore, clock) ==
    [success |-> TRUE,
     villageName |-> villageName,
     coordinates |-> [latitude |-> bestResult.geometry.location.lat,
                      longitude |-> bestResult.geometry.location.lng],
     formattedAddress |-> bestResult.formatted_address,
     placeId |-> bestResult.place_id,
     administrative |-> extractAdministrativeDetails(bestResult),
     locationType |-> bestResult.geometry.location_type,
     confidence |-> highestScore,
     geocodedAt |-> clock]

\* the outcome for the best result without the boundary check
ValidateBest_NoBoundary(villageName, language, bestResult, highestScore, clock) ==
    IF bestResult = NULL
        THEN NotFoundOutcome(language)
    ELSE IF bestResult.geometry.location = NULL
        THEN ServiceErrorOutcome(language)
    ELSE SuccessOutcome(villageName, bestResult, highestScore, clock)

\* geocodeVillage after the loop: the outcome for the best result
ValidateBest(villageName, language, bestResult, highestScore, clock) ==
    IF bestResult = NULL
        THEN NotFoundOutcome(language)
    ELSE IF bestResult.geometry.location = NULL
        \* location.lat of undefined throws into the outer catch
        THEN ServiceErrorOutcome(language)
    ELSE IF ~isLocationInPuneZP(bestResult.geometry.location)
        THEN OutOfBoundsOutcome(bestResult, language)
    ELSE SuccessOutcome(villageName, bestResult, highestScore, clock)

(***************************************************************************)
(* State manager.                                                          *)
(***************************************************************************)
REGISTRATION_STATES ==
    [initial |-> [nextStates |-> {"awaiting_name"}],
     awaiting_name |-> [nextStates |-> {"awaiting_village"}],
     awaiting_village |-> [nextStates |-> {"completed"}],
     completed |-> [nextStates |-> {}]]

\* context.previousState of a document made by createStateRecord
NoState == ""

\* a fresh document of the states sub-collection.  previousState is
\* context.previousState; parent is the document the transition that
\* created this one deactivated (0 for createStateRecord), kept for
\* reference only: the code does not store it.
NewStateRecord(stateId, previousState, parent) ==
    [stateId |-> stateId,
     isActive |-> TRUE,
     attempts |-> 0,
     numResults |-> 0,                  \* functionCallResults.length
     lastFunctionCallResult |-> NULL,
     extractedData |-> NULL,
     previousState |-> previousState,
     parent |-> parent]

createStateRecord(coll, stateId) ==
    Append(coll, NewStateRecord(stateId, NoState, 0))

ActiveIds(coll) == {i \in 1..Len(coll) : coll[i].isActive}

Latest(ids) == CHOOSE i \in ids : \A j \in ids : j <= i

\* getCurrentState: where isActive == true, orderBy createdAt desc, limit 1;
\* a failed read is logged and answered with null
getCurrentState(coll, readOK) ==
    IF ~readOK \/ ActiveIds(coll) = {} THEN NULL
    ELSE [id |-> Latest(ActiveIds(coll)),
          stateId |-> coll[Latest(ActiveIds(coll))].stateId]

\* completeStateTransition: one batch that deactivates the current document
\* and adds the next one; a failed commit changes nothing
completeStateTransition(coll, currentState, extractedData, nextStateId, commitOK) ==
    IF commitOK
        THEN Append([coll EXCEPT ![currentState.id].isActive = FALSE,
                                 ![currentState.id].extractedData = extractedData],
                    NewStateRecord(nextStateId, currentState.stateId, currentState.id))
        ELSE coll

(***************************************************************************)
(* Inference provider outputs.                                             *)
(***************************************************************************)
Confidences == {70, 90}

AcceptanceThreshold == 70

RameshPatil == <<"R", "a", "m", "e", "s", "h">>

WhatsAppDisplayName == <<"R", "a", "m">>

\* arguments of analyze_registration_state, or NULL when the answer carries
\* no tool call
StateAnalyses ==
    {NULL} \cup [has_required_data : BOOLEAN,
                 next_state : {"awaiting_name", "awaiting_village", "completed"},
                 confidence : Confidences]

\* extractedData always carries every field; a field the object lacks is NULL
\* (confidence: 0)
EmptyObject ==
    [full_name |-> NULL, village_name |-> NULL, confidence |-> 0,
     coordinates |-> NULL, validated_village |-> NULL, taluka |-> NULL]

NameExtractions ==
    {[EmptyObject EXCEPT !.full_name = n, !.confidence = c] :
        n \in {NULL, RameshPatil}, c \in Confidences}

\* village names a citizen's message can carry
ExtractedVillageNames == {Saswad}

VillageExtractions ==
    {[EmptyObject EXCEPT !.village_name = v, !.confidence = c] :
        v \in {NULL} \cup ExtractedVillageNames, c \in Confidences}

\* an extraction that asks for both shapes whatever the state
ExtractionsFor_NoDispatch(stateId) ==
    {NULL} \cup NameExtractions \cup VillageExtractions

\* extractRegistrationData: what the call can return in each state; a
\* provider error and an answer without tool call both give NULL
ExtractionsFor(stateId) ==
    CASE stateId = "awaiting_name" -> {NULL} \cup NameExtractions
      [] stateId = "awaiting_village" -> {NULL} \cup VillageExtractions
      [] OTHER -> {NULL}

\* does extractRegistrationData reach the inference provider in this state
ExtractorRequests(stateId) == stateId \in {"awaiting_name", "awaiting_village"}

\* the value processRegistrationWithFunctions returns at its end
FunctionResults(stateAnalysis, extractedData, currentStateId) ==
    [extractedData |-> extractedData,
     shouldTransition |-> IF stateAnalysis # NULL THEN stateAnalysis.has_required_data
                          ELSE FALSE,
     nextState |-> IF stateAnalysis # NULL THEN stateAnalysis.next_state
                   ELSE currentStateId,
     confidence |-> IF stateAnalysis # NULL THEN stateAnalysis.confidence ELSE 0,
     geocodingError |-> NULL]

\* the same value without the validator's message
GeocodingErrorResults_NoMessage(currentStateId, geocodeResult) ==
    [extractedData |-> NULL,
     shouldTransition |-> FALSE,
     nextState |-> currentStateId,
     confidence |-> 0,
     geocodingError |-> NULL]

\* the value it returns when the geocoder refused the village
GeocodingErrorResults(currentStateId, geocodeResult) ==
    [extractedData |-> NULL,
     shouldTransition |-> FALSE,
     nextState |-> currentStateId,
     confidence |-> 0,
     geocodingError |-> geocodeResult.message]

\* the value it returns from its catch block
FailedFunctionResults(currentStateId) ==
    [extractedData |-> NULL,
     shouldTransition |-> FALSE,
     nextState |-> currentStateId,
     confidence |-> 0,
     geocodingError |-> NULL]

\* extractedData after a successful geocode
WithGeocode(extractedData, geocodeResult) ==
    [extractedData EXCEPT
        !.coordinates = geocodeResult.coordinates,
        !.validated_village =
            IF Truthy(geocodeResult.administrative.village)
                THEN geocodeResult.administrative.village
                ELSE extractedData.village_name,
        !.taluka = geocodeResult.administrative.taluka,
        !.confidence = Min(extractedData.confidence, geocodeResult.confidence)]

(***************************************************************************)
(* Citizen service.                                                        *)
(***************************************************************************)
NewCitizen ==
    [isRegistered |-> FALSE,
     whatsappDisplayName |-> WhatsAppDisplayName,
     userProvidedName |-> NULL,
     village |-> NULL,
     coordinates |-> NULL,
     taluka |-> NULL]

\* Object.keys(updateData).length > 0 in updateCitizenDataFromFunctions
HasUpdateData(stateId, extractedData) ==
    \/ stateId = "awaiting_name" /\ Truthy(extractedData.full_name)
    \/ stateId = "awaiting_village" /\ Truthy(extractedData.village_name)

\* updateData of updateCitizenDataFromFunctions merged into the document
MergeExtracted(doc, stateId, extractedData) ==
    IF stateId = "awaiting_name" /\ Truthy(extractedData.full_name)
        THEN [doc EXCEPT !.userProvidedName = extractedData.full_name]
    ELSE IF stateId = "awaiting_village" /\ Truthy(extractedData.village_name)
        THEN [doc EXCEPT
                !.village = IF Truthy(extractedData.validated_village)
                                THEN extractedData.validated_village
                                ELSE extractedData.village_name,
                !.coordinates = IF Truthy(extractedData.coordinates)
                                    THEN extractedData.coordinates ELSE @,
                !.taluka = IF Truthy(extractedData.taluka)
                                THEN extractedData.taluka ELSE @]
    ELSE doc

\* the gate without its confidence test
GatePasses_NoConfidence(functionResults) ==
    /\ functionResults.shouldTransition
    /\ functionResults.extractedData # NULL

\* the gate of processRegistrationWithFunctionCalling
GatePasses(functionResults) ==
    /\ functionResults.shouldTransition
    /\ functionResults.extractedData # NULL
    /\ functionResults.confidence > AcceptanceThreshold

getWelcomeMessage(language, whatsappName) ==
    [text |-> "welcome", lang |-> IF language = "mr" THEN "mr" ELSE "en",
     name |-> whatsappName]

getRegistrationCompleteMessage(language, name, village) ==
    [text |-> "registration_complete", lang |-> IF language = "mr" THEN "mr" ELSE "en",
     name |-> name, village |-> village]

getDefaultPromptForState(stateId, language) ==
    IF stateId \in {"awaiting_name", "awaiting_village"}
        THEN [text |-> "default_prompt", lang |-> language, stateId |-> stateId]
        ELSE [text |-> "default_prompt_generic", lang |-> "en", stateId |-> stateId]

getRetryPromptForState(stateId, language) ==
    IF stateId \in {"awaiting_name", "awaiting_village"}
        THEN [text |-> "retry_prompt", lang |-> language, stateId |-> stateId]
        ELSE [text |-> "retry_prompt_generic", lang |-> "en", stateId |-> stateId]

\* text written by generateContextualResponseWithFunctions
ContextualResponse == [text |-> "contextual"]

TechnicalIssue(language) == Localized("technical_issue", language)

(***************************************************************************)
(* Handlers.  Each handler runs processMessage for one inbound message of  *)
(* the citizen; a step ends at an await on the store, on a provider or on  *)
(* the messaging transport.                                                *)
(***************************************************************************)
IdleProc ==
    [pc |-> "idle",
     language |-> "en",
     activeAtEntry |-> {},        \* stateIds active when registration handling began
     statesAtEntry |-> <<>>,      \* the states sub-collection at that moment
     classifierThrew |-> FALSE,   \* the state analysis call threw
     updateSuccess |-> FALSE,     \* what updateStateWithFunctionResults returned
     citizenData |-> NULL,
     currentState |-> NULL,
     existingResults |-> 0,
     stateAnalysis |-> NULL,
     extractedData |-> NULL,
     functionResults |-> NULL,
     result |-> NULL,
     calls |-> <<>>,              \* providers called for this message, in order
     sent |-> <<>>,               \* texts handed to sendMessage, in order
     direct |-> FALSE,            \* geocodeVillage called on its own
     villageName |-> NULL,
     entryBefore |-> NULL,        \* cache document found by the lookup
     queryIndex |-> 0,
     bestResult |-> NULL,
     highestScore |-> 0,
     requests |-> <<>>,           \* query templates sent to the provider
     failedRequests |-> 0,        \* how many of them threw
     seenBest |-> NULL,           \* earliest of the top-scoring results returned
     geocodeResult |-> NULL,
     originalRequest |-> NULL,    \* config of the request being posted
     error |-> NULL,              \* what the post was answered with, if it failed
     retryDelays |-> <<>>]        \* backoff delays waited for that request

Init ==
    /\ citizen = NULL
    /\ states = <<>>
    /\ geocodingCollection = [k \in CacheKeys |-> NULL]
    /\ now = 0
    /\ msgCount = 0
    /\ proc = [p \in Procs |-> IdleProc]
    /\ lastGeocode = NULL
    /\ faults = 0

SetProc(p, r) == proc' = [proc EXCEPT ![p] = r]

\* what an operation on the store or on the messaging transport can do:
\* succeed (TRUE) or, while the fault budget lasts, fail (FALSE)
Outcomes == IF faults < MaxFaults THEN BOOLEAN ELSE {TRUE}

Fault(ok) == faults' = IF ok THEN faults ELSE faults + 1

\* processRegistrationWithFunctions returns functionResults: its own locals
\* are gone (the geocoder's outcome is kept for reference)
WithFunctionResults(r, functionResults) ==
    [r EXCEPT !.functionResults = functionResults,
              !.stateAnalysis = NULL,
              !.extractedData = NULL,
              !.villageName = NULL,
              !.entryBefore = NULL,
              !.queryIndex = 0,
              !.bestResult = NULL,
              !.highestScore = 0,
              !.requests = <<>>,
              !.failedRequests = 0,
              !.seenBest = NULL,
              !.pc = "updateStateRead"]

\* processRegistrationWithFunctionCalling returns result to processMessage
Returning(r, result) ==
    [r EXCEPT !.result = result,
              !.functionResults = NULL,
              !.existingResults = 0,
              !.pc = "send"]

\* the same without the test of isRegistered: every message goes through
\* registration handling
Routed_AlwaysRegistration(r, coll) ==
    [r EXCEPT !.activeAtEntry = {coll[i].stateId : i \in ActiveIds(coll)},
              !.statesAtEntry = coll,
              !.pc = "getCurrentState"]

\* processMessage, after getOrCreateCitizen; coll is the states
\* sub-collection at that moment
Routed(r, coll) ==
    [r EXCEPT !.activeAtEntry = {coll[i].stateId : i \in ActiveIds(coll)},
              !.statesAtEntry = coll,
              !.pc = IF r.citizenData.isRegistered THEN "qa" ELSE "getCurrentState"]

\* processMessage up to getOrCreateCitizen: a message of an unsupported
\* type is answered with a notice, an empty messageText ends the handling
Receive(p) ==
    /\ proc[p].pc = "idle"
    /\ msgCount < MaxMessages
    /\ msgCount' = msgCount + 1
    /\ \E language \in Languages, kind \in MessageKinds :
          SetProc(p, [IdleProc EXCEPT
                        !.pc = CASE kind = "text" -> "getOrCreateCitizen"
                                 [] kind = "empty" -> "done"
                                 [] kind = "unsupported" -> "sendUnsupported",
                        !.language = IF kind = "text" THEN language ELSE "en"])
    /\ UNCHANGED <<citizen, states, geocodingCollection, now, lastGeocode, faults>>

\* getOrCreateCitizen: the read of the document and, for an existing
\* citizen, the lastActive update; either can throw
GetCitizen(p) ==
    /\ proc[p].pc = "getOrCreateCitizen"
    /\ \E ok \in Outcomes :
          /\ Fault(ok)
          /\ SetProc(p, IF ~ok THEN [proc[p] EXCEPT !.pc = "fallback"]
                        ELSE IF citizen # NULL
                           THEN Routed([proc[p] EXCEPT !.citizenData = citizen], states)
                        ELSE [proc[p] EXCEPT !.pc = "setCitizen"])
    /\ UNCHANGED <<citizen, states, geocodingCollection, now, msgCount, lastGeocode>>

SetCitizen(p) ==
    /\ proc[p].pc = "setCitizen"
    /\ \E ok \in Outcomes :
          /\ Fault(ok)
          /\ citizen' = IF ok THEN NewCitizen ELSE citizen
          /\ SetProc(p, IF ok THEN [proc[p] EXCEPT !.pc = "createInitialState",
                                                   !.citizenData = NewCitizen]
                        ELSE [proc[p] EXCEPT !.pc = "fallback"])
    /\ UNCHANGED <<states, geocodingCollection, now, msgCount, lastGeocode>>

CreateInitialState(p) ==
    /\ proc[p].pc = "createInitialState"
    /\ \E ok \in Outcomes :
          /\ Fault(ok)
          /\ states' = IF ok THEN createStateRecord(states, "initial") ELSE states
          /\ SetProc(p, IF ok THEN Routed(proc[p], createStateRecord(states, "initial"))
                        ELSE [proc[p] EXCEPT !.pc = "fallback"])
    /\ UNCHANGED <<citizen, geocodingCollection, now, msgCount, lastGeocode>>

\* processRegistrationWithFunctionCalling up to its first branch
GetCurrentState(p) ==
    /\ proc[p].pc = "getCurrentState"
    /\ \E readOK \in Outcomes :
          /\ Fault(readOK)
          /\ LET currentState == getCurrentState(states, readOK)
             IN  SetProc(p, [proc[p] EXCEPT
                               !.currentState = currentState,
                               !.pc = IF currentState = NULL THEN "createMissingState"
                                      ELSE IF currentState.stateId = "initial" THEN "welcome"
                                      ELSE "classify"])
    /\ UNCHANGED <<citizen, states, geocodingCollection, now, msgCount, lastGeocode>>

\* if (!currentState) createStateRecord(..., 'awaiting_name'); a throw ends
\* in the catch block of processRegistrationWithFunctionCalling
CreateMissingState(p) ==
    /\ proc[p].pc = "createMissingState"
    /\ \E ok \in Outcomes :
          /\ Fault(ok)
          /\ states' = IF ok THEN createStateRecord(states, "awaiting_name") ELSE states
          /\ SetProc(p, IF ok
                        THEN [proc[p] EXCEPT
                                !.currentState = [id |-> Len(states) + 1,
                                                  stateId |-> "awaiting_name"],
                                !.pc = "classify"]
                        ELSE Returning(proc[p],
                                       [shouldContinue |-> FALSE,
                                        response |-> TechnicalIssue(proc[p].language),
                                        functionCallResults |-> NULL]))
    /\ UNCHANGED <<citizen, geocodingCollection, now, msgCount, lastGeocode>>

\* the initial state: welcome and transition to awaiting_name, whose
\* result is not looked at
WelcomeTransition(p) ==
    /\ proc[p].pc = "welcome"
    /\ \E commitOK \in Outcomes :
          /\ Fault(commitOK)
          /\ states' = completeStateTransition(states, proc[p].currentState, EmptyObject,
                                               "awaiting_name", commitOK)
    /\ SetProc(p, Returning(proc[p],
                    [shouldContinue |-> FALSE,
                     response |-> getWelcomeMessage(proc[p].language,
                                        proc[p].citizenData.whatsappDisplayName),
                     functionCallResults |-> NULL]))
    /\ UNCHANGED <<citizen, geocodingCollection, now, msgCount, lastGeocode>>

\* the state analysis call followed by the extraction whatever the
\* classifier reported
Classify_AlwaysExtract(p) ==
    /\ proc[p].pc = "classify"
    /\ \E stateAnalysis \in StateAnalyses :
          SetProc(p, [proc[p] EXCEPT
                        !.calls = Append(@, "classifier"),
                        !.stateAnalysis = stateAnalysis,
                        !.pc = "extract"])
    /\ UNCHANGED <<citizen, states, geocodingCollection, now, msgCount, lastGeocode, faults>>

\* processRegistrationWithFunctions: the state analysis call
Classify(p) ==
    /\ proc[p].pc = "classify"
    /\ \/ \* the call throws: catch block
          SetProc(p, WithFunctionResults(
                        [proc[p] EXCEPT !.calls = Append(@, "classifier"),
                                        !.classifierThrew = TRUE],
                        FailedFunctionResults(proc[p].currentState.stateId)))
       \/ \E stateAnalysis \in StateAnalyses :
             SetProc(p, IF stateAnalysis # NULL /\ stateAnalysis.has_required_data
                        THEN [proc[p] EXCEPT
                                !.calls = Append(@, "classifier"),
                                !.stateAnalysis = stateAnalysis,
                                !.pc = "extract"]
                        ELSE WithFunctionResults(
                                [proc[p] EXCEPT !.calls = Append(@, "classifier")],
                                FunctionResults(stateAnalysis, NULL,
                                                proc[p].currentState.stateId)))
    /\ UNCHANGED <<citizen, states, geocodingCollection, now, msgCount, lastGeocode, faults>>

\* extractRegistrationData, then either the geocoder or the return
Extract(p) ==
    /\ proc[p].pc = "extract"
    /\ \E extractedData \in ExtractionsFor(proc[p].currentState.stateId) :
          LET r == [proc[p] EXCEPT
                        !.calls = IF ExtractorRequests(proc[p].currentState.stateId)
                                    THEN Append(@, "extractor") ELSE @,
                        !.extractedData = extractedData]
          IN  SetProc(p, IF /\ proc[p].currentState.stateId = "awaiting_village"
                            /\ extractedData # NULL
                            /\ Truthy(extractedData.village_name)
                         THEN [r EXCEPT !.villageName = extractedData.village_name,
                                        !.pc = "getCachedGeocode"]
                         ELSE WithFunctionResults(r,
                                FunctionResults(proc[p].stateAnalysis, extractedData,
                                                proc[p].currentState.stateId)))
    /\ UNCHANGED <<citizen, states, geocodingCollection, now, msgCount, lastGeocode, faults>>

\* geocodeVillage: the cache lookup
GetCachedGeocode(p) ==
    /\ proc[p].pc = "getCachedGeocode"
    /\ \E readOK \in Outcomes, deleteOK \in Outcomes :
          /\ readOK \/ deleteOK
          /\ Fault(readOK /\ deleteOK)
          /\ LET cached == getCachedGeocode(geocodingCollection, proc[p].villageName,
                                            now, readOK, deleteOK)
                 r == [proc[p] EXCEPT
                           !.calls = Append(@, "geocoder"),
                           !.entryBefore =
                               IF readOK THEN geocodingCollection[CacheKey(proc[p].villageName)]
                               ELSE NULL]
             IN  /\ geocodingCollection' = cached.coll
                 /\ SetProc(p, IF cached.result # NULL
                               THEN [r EXCEPT !.geocodeResult = cached.result,
                                              !.pc = "geocodeReturn"]
                               ELSE [r EXCEPT !.queryIndex = 1,
                                              !.pc = "geocodeQuery"])
    /\ UNCHANGED <<citizen, states, now, msgCount, lastGeocode>>

\* the loop leaving at the first request that throws
GeocodeQuery_StopOnError(p) ==
    /\ proc[p].pc = "geocodeQuery"
    /\ \E response \in ProviderResponses :
          LET best == ScoreResponse([bestResult |-> proc[p].bestResult,
                                     highestScore |-> proc[p].highestScore],
                                    response, proc[p].villageName)
          IN  SetProc(p, [proc[p] EXCEPT
                            !.requests = Append(@, proc[p].queryIndex),
                            !.failedRequests = IF response.kind = "error" THEN @ + 1 ELSE @,
                            !.seenBest =
                                IF response.kind = "ok"
                                    /\ (@ = NULL
                                        \/ RelevanceScore[response.result,
                                                          proc[p].villageName] > @.score)
                                    THEN [result |-> response.result,
                                          score |-> RelevanceScore[response.result,
                                                                   proc[p].villageName]]
                                    ELSE @,
                            !.bestResult = best.bestResult,
                            !.highestScore = best.highestScore,
                            !.queryIndex = @ + 1,
                            !.pc = IF proc[p].queryIndex = 4 \/ response.kind = "error"
                                       THEN "geocodeFinish"
                                       ELSE "geocodeQuery"])
    /\ UNCHANGED <<citizen, states, geocodingCollection, now, msgCount, lastGeocode, faults>>

\* geocodeVillage: one pass of the loop over searchQueries; a request that
\* throws is logged and the loop continues
GeocodeQuery(p) ==
    /\ proc[p].pc = "geocodeQuery"
    /\ \E response \in ProviderResponses :
          LET best == ScoreResponse([bestResult |-> proc[p].bestResult,
                                     highestScore |-> proc[p].highestScore],
                                    response, proc[p].villageName)
          IN  SetProc(p, [proc[p] EXCEPT
                            !.requests = Append(@, proc[p].queryIndex),
                            !.failedRequests = IF response.kind = "error" THEN @ + 1 ELSE @,
                            !.seenBest =
                                IF response.kind = "ok"
                                    /\ (@ = NULL
                                        \/ RelevanceScore[response.result,
                                                          proc[p].villageName] > @.score)
                                    THEN [result |-> response.result,
                                          score |-> RelevanceScore[response.result,
                                                                   proc[p].villageName]]
                                    ELSE @,
                            !.bestResult = best.bestResult,
                            !.highestScore = best.highestScore,
                            !.queryIndex = @ + 1,
                            !.pc = IF proc[p].queryIndex = 4 THEN "geocodeFinish"
                                   ELSE "geocodeQuery"])
    /\ UNCHANGED <<citizen, states, geocodingCollection, now, msgCount, lastGeocode, faults>>

\* geocodeVillage: validation of the best result and the cache write
GeocodeFinish(p) ==
    /\ proc[p].pc = "geocodeFinish"
    /\ \E writeOK \in Outcomes :
          /\ Fault(writeOK)
          \* only a success is written to the cache
          /\ writeOK \/ ValidateBest(proc[p].villageName, proc[p].language,
                                     proc[p].bestResult, proc[p].highestScore, now).success
          /\ LET geocodeResult == ValidateBest(proc[p].villageName, proc[p].language,
                                               proc[p].bestResult, proc[p].highestScore, now)
             IN  /\ geocodingCollection' =
                       IF geocodeResult.success
                           THEN cacheGeocode(geocodingCollection, proc[p].villageName,
                                             geocodeResult, now, writeOK)
                           ELSE geocodingCollection
                 /\ SetProc(p, [proc[p] EXCEPT !.geocodeResult = geocodeResult,
                                               !.pc = "geocodeReturn"])
    /\ UNCHANGED <<citizen, states, now, msgCount, lastGeocode>>

\* geocodeVillage returns: to processRegistrationWithFunctions, which
\* merges a success into extractedData and turns a failure into
\* geocodingError; or to the direct caller
GeocodeReturn(p) ==
    /\ proc[p].pc = "geocodeReturn"
    /\ IF proc[p].direct
        THEN /\ lastGeocode' = [villageName |-> proc[p].villageName,
                                outcome |-> proc[p].geocodeResult,
                                at |-> now]
             /\ SetProc(p, IdleProc)
        ELSE /\ UNCHANGED lastGeocode
             /\ SetProc(p, WithFunctionResults(proc[p],
                    IF proc[p].geocodeResult.success
                        THEN FunctionResults(proc[p].stateAnalysis,
                                             WithGeocode(proc[p].extractedData,
                                                         proc[p].geocodeResult),
                                             proc[p].currentState.stateId)
                        ELSE GeocodingErrorResults(proc[p].currentState.stateId,
                                                   proc[p].geocodeResult)))
    /\ UNCHANGED <<citizen, states, geocodingCollection, now, msgCount, faults>>

\* processRegistrationWithFunctionCalling after updateStateWithFunctionResults
AfterUpdate(r) ==
    IF Truthy(r.functionResults.geocodingError)
        THEN Returning(r, [shouldContinue |-> FALSE,
                           response |-> r.functionResults.geocodingError,
                           functionCallResults |-> r.functionResults])
    ELSE IF GatePasses(r.functionResults)
        THEN [r EXCEPT !.pc = "updateCitizenData"]
    ELSE [r EXCEPT !.pc = "clarify"]

\* updateStateWithFunctionResults: the read of the state document
UpdateStateRead(p) ==
    /\ proc[p].pc = "updateStateRead"
    /\ \E readOK \in Outcomes :
          /\ Fault(readOK)
          /\ SetProc(p, IF readOK
                        THEN [proc[p] EXCEPT
                               !.existingResults = states[proc[p].currentState.id].numResults,
                               !.pc = "updateStateWrite"]
                        ELSE AfterUpdate([proc[p] EXCEPT !.updateSuccess = FALSE]))
    /\ UNCHANGED <<citizen, states, geocodingCollection, now, msgCount, lastGeocode>>

\* updateStateWithFunctionResults: the update.  attempts is a server-side
\* increment, functionCallResults the array read before plus one entry
UpdateStateWrite(p) ==
    /\ proc[p].pc = "updateStateWrite"
    /\ \E writeOK \in Outcomes :
          /\ Fault(writeOK)
          /\ states' =
               IF writeOK
                   THEN [states EXCEPT
                           ![proc[p].currentState.id].attempts = @ + 1,
                           ![proc[p].currentState.id].numResults = proc[p].existingResults + 1,
                           ![proc[p].currentState.id].lastFunctionCallResult =
                               [geocodingError |-> proc[p].functionResults.geocodingError]]
                   ELSE states
          /\ SetProc(p, AfterUpdate([proc[p] EXCEPT !.updateSuccess = writeOK]))
    /\ UNCHANGED <<citizen, geocodingCollection, now, msgCount, lastGeocode>>

\* the else branch of the gate: clarification, or the retry prompt when
\* no contextual response could be generated
Clarify(p) ==
    /\ proc[p].pc = "clarify"
    /\ \E clarificationResponse \in {NULL, ContextualResponse} :
          SetProc(p, Returning(proc[p],
                        [shouldContinue |-> FALSE,
                         response |->
                            IF Truthy(clarificationResponse) THEN clarificationResponse
                            ELSE getRetryPromptForState(proc[p].currentState.stateId,
                                                        proc[p].language),
                         functionCallResults |-> proc[p].functionResults]))
    /\ UNCHANGED <<citizen, states, geocodingCollection, now, msgCount, lastGeocode, faults>>

\* updateCitizenDataFromFunctions: one update when there is something to
\* write; a failed update is logged and swallowed
UpdateCitizenData(p) ==
    /\ proc[p].pc = "updateCitizenData"
    /\ \E writeOK \in Outcomes :
          /\ Fault(writeOK)
          /\ writeOK \/ HasUpdateData(proc[p].currentState.stateId,
                                      proc[p].functionResults.extractedData)
          /\ citizen' = IF writeOK /\ citizen # NULL
                           THEN MergeExtracted(citizen, proc[p].currentState.stateId,
                                               proc[p].functionResults.extractedData)
                           ELSE citizen
    /\ SetProc(p, [proc[p] EXCEPT
                    !.pc = IF proc[p].functionResults.nextState = "completed"
                            THEN "completeRegistration"
                            ELSE "completeStateTransition"])
    /\ UNCHANGED <<states, geocodingCollection, now, msgCount, lastGeocode>>

\* the reply of the completion branch
CompletionResult(r) ==
    [shouldContinue |-> TRUE,
     response |->
        getRegistrationCompleteMessage(
            r.language,
            IF Truthy(r.citizenData.userProvidedName) THEN r.citizenData.userProvidedName
            ELSE r.citizenData.whatsappDisplayName,
            IF Truthy(r.functionResults.extractedData.validated_village)
                THEN r.functionResults.extractedData.validated_village
                ELSE r.functionResults.extractedData.village_name),
     functionCallResults |-> r.functionResults]

\* completeRegistration: the isRegistered update; a throw skips the
\* transition and is swallowed
CompleteRegistrationUpdate(p) ==
    /\ proc[p].pc = "completeRegistration"
    /\ \E writeOK \in Outcomes :
          /\ Fault(writeOK)
          /\ citizen' = IF writeOK /\ citizen # NULL
                            THEN [citizen EXCEPT !.isRegistered = TRUE]
                            ELSE citizen
          /\ SetProc(p, IF writeOK /\ citizen # NULL
                        THEN [proc[p] EXCEPT !.pc = "completeRegistrationTransition"]
                        ELSE Returning(proc[p], CompletionResult(proc[p])))
    /\ UNCHANGED <<states, geocodingCollection, now, msgCount, lastGeocode>>

\* completeRegistration: the transition to completed
CompleteRegistrationTransition(p) ==
    /\ proc[p].pc = "completeRegistrationTransition"
    /\ \E commitOK \in Outcomes :
          /\ Fault(commitOK)
          /\ states' = completeStateTransition(states, proc[p].currentState, EmptyObject,
                                               "completed", commitOK)
    /\ SetProc(p, Returning(proc[p], CompletionResult(proc[p])))
    /\ UNCHANGED <<citizen, geocodingCollection, now, msgCount, lastGeocode>>

\* the normal state transition and the prompt for the next state
Transition(p) ==
    /\ proc[p].pc = "completeStateTransition"
    /\ \E commitOK \in Outcomes :
          /\ Fault(commitOK)
          /\ states' = completeStateTransition(states, proc[p].currentState,
                                               proc[p].functionResults.extractedData,
                                               proc[p].functionResults.nextState, commitOK)
    /\ \E contextualResponse \in {NULL, ContextualResponse} :
          SetProc(p, Returning(proc[p],
                        [shouldContinue |-> FALSE,
                         response |->
                            IF Truthy(contextualResponse) THEN contextualResponse
                            ELSE getDefaultPromptForState(
                                    proc[p].functionResults.nextState,
                                    proc[p].language),
                         functionCallResults |-> proc[p].functionResults]))
    /\ UNCHANGED <<citizen, geocodingCollection, now, msgCount, lastGeocode>>

\* the same without the test of shouldContinue: the conversation follows
\* every registration reply
SendReply_AlwaysContinue(p) ==
    /\ proc[p].pc = "send"
    /\ \E sendOK \in Outcomes :
          /\ Fault(sendOK)
          /\ SetProc(p, IF sendOK
                        THEN [proc[p] EXCEPT
                               !.sent = Append(@, proc[p].result.response),
                               !.pc = "qa"]
                        ELSE [proc[p] EXCEPT !.pc = "fallback"])
    /\ UNCHANGED <<citizen, states, geocodingCollection, now, msgCount, lastGeocode>>

\* processMessage: the registration reply is sent; a throw of sendMessage
\* goes to the catch block
SendReply(p) ==
    /\ proc[p].pc = "send"
    /\ \E sendOK \in Outcomes :
          /\ Fault(sendOK)
          /\ SetProc(p, IF sendOK
                        THEN [proc[p] EXCEPT
                               !.sent = Append(@, proc[p].result.response),
                               !.pc = IF proc[p].result.shouldContinue THEN "qa" ELSE "done"]
                        ELSE [proc[p] EXCEPT !.pc = "fallback"])
    /\ UNCHANGED <<citizen, states, geocodingCollection, now, msgCount, lastGeocode>>

\* processMessage: the conversation for registered users; any step of it
\* can throw
AnswerQuestion(p) ==
    /\ proc[p].pc = "qa"
    /\ \E ok \in Outcomes :
          /\ Fault(ok)
          /\ SetProc(p, IF ok
                        THEN [proc[p] EXCEPT !.sent = Append(@, [text |-> "answer"]),
                                             !.pc = "done"]
                        ELSE [proc[p] EXCEPT !.pc = "fallback"])
    /\ UNCHANGED <<citizen, states, geocodingCollection, now, msgCount, lastGeocode>>

\* processMessage: the notice for a message that is not a text; a throw of
\* sendMessage goes to the catch block
SendUnsupported(p) ==
    /\ proc[p].pc = "sendUnsupported"
    /\ \E sendOK \in Outcomes :
          /\ Fault(sendOK)
          /\ SetProc(p, IF sendOK
                        THEN [proc[p] EXCEPT !.sent = Append(@, [text |-> "unsupported"]),
                                             !.pc = "done"]
                        ELSE [proc[p] EXCEPT !.pc = "fallback"])
    /\ UNCHANGED <<citizen, states, geocodingCollection, now, msgCount, lastGeocode>>

\* the same with the registration's state writes rolled back
SendFallback_Rollback(p) ==
    /\ proc[p].pc = "fallback"
    /\ \E sendOK \in Outcomes :
          /\ Fault(sendOK)
          /\ SetProc(p, [proc[p] EXCEPT
                           !.sent = IF sendOK THEN Append(@, [text |-> "fallback"]) ELSE @,
                           !.pc = "done"])
    /\ states' = IF proc[p].result # NULL THEN proc[p].statesAtEntry ELSE states
    /\ UNCHANGED <<citizen, geocodingCollection, now, msgCount, lastGeocode>>

\* processMessage: the catch block sends the fallback message; a failure
\* of that send is logged
SendFallback(p) ==
    /\ proc[p].pc = "fallback"
    /\ \E sendOK \in Outcomes :
          /\ Fault(sendOK)
          /\ SetProc(p, [proc[p] EXCEPT
                           !.sent = IF sendOK THEN Append(@, [text |-> "fallback"]) ELSE @,
                           !.pc = "done"])
    /\ UNCHANGED <<citizen, states, geocodingCollection, now, msgCount, lastGeocode>>

\* processMessage returns
Return(p) ==
    /\ proc[p].pc = "done"
    /\ SetProc(p, IdleProc)
    /\ UNCHANGED <<citizen, states, geocodingCollection, now, msgCount, lastGeocode, faults>>

Handle(p) ==
    \/ Receive(p)
    \/ SendUnsupported(p)
    \/ GetCitizen(p)
    \/ SetCitizen(p)
    \/ CreateInitialState(p)
    \/ GetCurrentState(p)
    \/ CreateMissingState(p)
    \/ WelcomeTransition(p)
    \/ Classify(p)
    \/ Extract(p)
    \/ GetCachedGeocode(p)
    \/ GeocodeQuery(p)
    \/ GeocodeFinish(p)
    \/ GeocodeReturn(p)
    \/ UpdateStateRead(p)
    \/ UpdateStateWrite(p)
    \/ Clarify(p)
    \/ UpdateCitizenData(p)
    \/ CompleteRegistrationUpdate(p)
    \/ CompleteRegistrationTransition(p)
    \/ Transition(p)
    \/ SendReply(p)
    \/ AnswerQuestion(p)
    \/ SendFallback(p)
    \/ Return(p)

\* the citizen's messages handled one at a time
Next == Handle(1)

Spec == Init /\ [][Next]_vars

\* positions whose step reads and writes only the handler's own locals
\* (and the providers): such a step commutes with every step of the other
\* handler
LocalPcs ==
    {"classify", "extract", "geocodeQuery", "geocodeReturn", "clarify",
     "send", "sendUnsupported", "qa", "fallback", "done"}

\* messages of the citizen handled concurrently.  A handler at a local
\* position runs on to its next store operation before the other handler
\* moves: the interleavings are those of the store operations.
NextConc ==
    \E p \in Procs :
        /\ \A q \in Procs \ {p} : proc[q].pc \notin LocalPcs
        /\ msgCount < MaxConcurrent \/ proc[p].pc # "idle"
        /\ Handle(p)

SpecConc == Init /\ [][NextConc]_vars

(***************************************************************************)
(* The geocoding validator called on its own, with time passing between    *)
(* calls.                                                                  *)
(***************************************************************************)
TickSteps == {12}

Tick ==
    /\ \A p \in Procs : proc[p].pc = "idle"
    /\ \E d \in TickSteps :
          /\ now + d <= MaxTime
          /\ now' = now + d
    /\ UNCHANGED <<citizen, states, geocodingCollection, msgCount, proc, lastGeocode, faults>>

GeocodeBegin(p) ==
    /\ proc[p].pc = "idle"
    /\ \E villageName \in VillageNames, language \in Languages :
          SetProc(p, [IdleProc EXCEPT !.direct = TRUE,
                                      !.villageName = villageName,
                                      !.language = language,
                                      !.pc = "getCachedGeocode"])
    /\ UNCHANGED <<citizen, states, geocodingCollection, now, msgCount, lastGeocode, faults>>

NextGeo ==
    \/ Tick
    \/ GeocodeBegin(1)
    \/ GetCachedGeocode(1)
    \/ GeocodeQuery(1)
    \/ GeocodeFinish(1)
    \/ GeocodeReturn(1)

SpecGeo == Init /\ [][NextGeo]_vars

(***************************************************************************)
(* extractRegistrationData called for every state: the state analysis of   *)
(* processRegistrationWithFunctions has reported the required data.        *)
(***************************************************************************)
InitExtract ==
    /\ citizen = NewCitizen
    /\ geocodingCollection = [k \in CacheKeys |-> NULL]
    /\ now = 0
    /\ msgCount = 1
    /\ lastGeocode = NULL
    /\ faults = 0
    /\ \E currentState \in DOMAIN REGISTRATION_STATES, language \in Languages,
          stateAnalysis \in {a \in StateAnalyses \ {NULL} : a.has_required_data} :
          /\ states = <<NewStateRecord(currentState, NoState, 0)>>
          /\ proc = [p \in Procs |->
                        IF p = 1
                            THEN [IdleProc EXCEPT
                                    !.pc = "extract",
                                    !.language = language,
                                    !.citizenData = NewCitizen,
                                    !.activeAtEntry = {currentState},
                                    !.statesAtEntry = states,
                                    !.currentState = [id |-> 1, stateId |-> currentState],
                                    !.stateAnalysis = stateAnalysis,
                                    !.calls = <<"classifier">>]
                            ELSE IdleProc]

NextExtract == Extract(1)

SpecExtract == InitExtract /\ [][NextExtract]_vars

(***************************************************************************)
(* extractAdministrativeDetails over address component lists in provider   *)
(* order: geocodeVillage has finished its queries with a best result       *)
(* inside the boundary.                                                    *)
(***************************************************************************)
MaxComponents == 3

Hadapsar == <<"H", "a", "d", "a", "p", "s", "a", "r">>
Haveli == <<"H", "a", "v", "e", "l", "i">>
Pincode == <<"4", "1", "1", "0", "2", "8">>

\* components the provider lists for a place inside a city: the
\* sublocality, the locality, the taluka and so on
AdminComponents ==
    { Component(Hadapsar, Hadapsar, {"sublocality", "political"}),
      Component(Pune, Pune, {"locality", "political"}),
      Component(Haveli, Haveli, {"administrative_area_level_3", "political"}),
      Component(Purandar, Purandar, {"administrative_area_level_3", "political"}),
      Component(Pune, Pune, {"administrative_area_level_2", "political"}),
      Component(Maharashtra, <<"M", "H">>, {"administrative_area_level_1", "political"}),
      Component(India, <<"I", "N">>, {"country", "political"}),
      Component(Pincode, Pincode, {"postal_code"}) }

AdminResults ==
    { [place_id |-> "hadapsar",
       formatted_address |-> Hadapsar \o CommaSpace \o Pune,
       address_components |-> components,
       geometry |-> [location |-> [lat |-> 185, lng |-> 739],
                     location_type |-> "APPROXIMATE"]] :
        components \in UNION {[1..n -> AdminComponents] : n \in 0..MaxComponents} }

InitAdmin ==
    /\ citizen = NULL
    /\ states = <<>>
    /\ geocodingCollection = [k \in CacheKeys |-> NULL]
    /\ now = 0
    /\ msgCount = 0
    /\ lastGeocode = NULL
    /\ faults = 0
    /\ \E villageName \in VillageNames, language \in Languages,
          bestResult \in AdminResults :
          proc = [p \in Procs |->
                    IF p = 1
                        THEN [IdleProc EXCEPT
                                !.pc = "geocodeFinish",
                                !.direct = TRUE,
                                !.villageName = villageName,
                                !.language = language,
                                !.queryIndex = 5,
                                !.requests = <<1, 2, 3, 4>>,
                                !.bestResult = bestResult,
                                !.seenBest = bestResult,
                                !.highestScore =
                                    calculateRelevanceScore(bestResult, villageName)]
                        ELSE IdleProc]

NextAdmin ==
    \/ GeocodeFinish(1)
    \/ GeocodeReturn(1)

SpecAdmin == InitAdmin /\ [][NextAdmin]_vars

(***************************************************************************)
(* sendMessage and splitLongMessage.  A text is a sequence of tokens: a    *)
(* word (a run of characters without whitespace, given by its length), a  *)
(* space, the whitespace after a sentence terminator, or a paragraph       *)
(* break "\n\n".                                                           *)
(***************************************************************************)
MAX_LENGTH == 4000

Word(n) == [kind |-> "word", len |-> n]
Space == [kind |-> "space", len |-> 1]
SentenceSpace == [kind |-> "sentence_space", len |-> 1]
ParagraphBreak == [kind |-> "break", len |-> 2]

\* message.length
RECURSIVE Length(_)
Length(text) ==
    IF text = <<>> THEN 0 ELSE Head(text).len + Length(Tail(text))

\* text.substring(0, n)
RECURSIVE SubstringTo(_, _)
SubstringTo(text, n) ==
    IF text = <<>> \/ n = 0 THEN <<>>
    ELSE IF Head(text).len <= n
        THEN <<Head(text)>> \o SubstringTo(Tail(text), n - Head(text).len)
    ELSE <<[Head(text) EXCEPT !.len = n]>>

\* text.substring(n)
RECURSIVE SubstringFrom(_, _)
SubstringFrom(text, n) ==
    IF text = <<>> \/ n = 0 THEN text
    ELSE IF Head(text).len <= n
        THEN SubstringFrom(Tail(text), n - Head(text).len)
    ELSE <<[Head(text) EXCEPT !.len = @ - n]>> \o Tail(text)

\* text.split(separator), the separator being one of the token kinds
RECURSIVE SplitText(_, _)
SplitText(text, kinds) ==
    IF \A i \in 1..Len(text) : text[i].kind \notin kinds THEN <<text>>
    ELSE LET first == CHOOSE i \in 1..Len(text) :
                         /\ text[i].kind \in kinds
                         /\ \A j \in 1..(i - 1) : text[j].kind \notin kinds
         IN  <<SubSeq(text, 1, first - 1)>>
                \o SplitText(SubSeq(text, first + 1, Len(text)), kinds)

Whitespace == {"space", "sentence_space", "break"}

\* part.trim()
RECURSIVE TrimText(_)
TrimText(text) ==
    IF text = <<>> THEN text
    ELSE IF Head(text).kind \in Whitespace THEN TrimText(Tail(text))
    ELSE IF text[Len(text)].kind \in Whitespace
        THEN TrimText(SubSeq(text, 1, Len(text) - 1))
    ELSE text

Pushed(acc) ==
    IF Length(acc.currentPart) > 0
        THEN [parts |-> Append(acc.parts, TrimText(acc.currentPart)), currentPart |-> <<>>]
        ELSE acc

Joined(acc, separator, text) ==
    [acc EXCEPT !.currentPart =
        @ \o (IF Length(@) > 0 THEN <<separator>> ELSE <<>>) \o text]

\* the loop over the words of a sentence longer than MAX_LENGTH
RECURSIVE SplitWords(_, _)
SplitWords(words, acc) ==
    IF words = <<>> THEN acc
    ELSE LET word == Head(words)
             next ==
                IF Length(acc.currentPart) + Length(word) + 1 > MAX_LENGTH
                    THEN IF Length(acc.currentPart) > 0
                            THEN [parts |-> Append(acc.parts, TrimText(acc.currentPart)),
                                  currentPart |-> word]
                            ELSE [parts |-> Append(acc.parts, SubstringTo(word, MAX_LENGTH)),
                                  currentPart |-> SubstringFrom(word, MAX_LENGTH)]
                    ELSE Joined(acc, Space, word)
         IN  SplitWords(Tail(words), next)

\* the loop over the sentences of a paragraph longer than MAX_LENGTH
RECURSIVE SplitSentences(_, _)
SplitSentences(sentences, acc) ==
    IF sentences = <<>> THEN acc
    ELSE LET sentence == Head(sentences)
             next ==
                IF Length(acc.currentPart) + Length(sentence) + 1 > MAX_LENGTH
                    THEN IF Length(sentence) > MAX_LENGTH
                            THEN SplitWords(SplitText(sentence, {"space"}), Pushed(acc))
                            ELSE [Pushed(acc) EXCEPT !.currentPart = sentence]
                    ELSE Joined(acc, Space, sentence)
         IN  SplitSentences(Tail(sentences), next)

\* the loop over the paragraphs
RECURSIVE SplitParagraphs(_, _)
SplitParagraphs(paragraphs, acc) ==
    IF paragraphs = <<>> THEN acc
    ELSE LET paragraph == Head(paragraphs)
             next ==
                IF Length(acc.currentPart) + Length(paragraph) + 2 > MAX_LENGTH
                    THEN IF Length(paragraph) > MAX_LENGTH
                            THEN SplitSentences(SplitText(paragraph, {"sentence_space"}),
                                                Pushed(acc))
                            ELSE [Pushed(acc) EXCEPT !.currentPart = paragraph]
                    ELSE Joined(acc, ParagraphBreak, paragraph)
         IN  SplitParagraphs(Tail(paragraphs), next)

Digits(n) == IF n < 10 THEN 1 ELSE IF n < 100 THEN 2 ELSE 3

\* the part indicator: two newlines, the marker, " (", index, "/", count, ")"
Indicator(index, count) ==
    [kind |-> "indicator", len |-> 2 + 3 + 2 + Digits(index) + 1 + Digits(count) + 1]

splitLongMessage(message) ==
    IF Length(message) <= MAX_LENGTH THEN <<message>>
    ELSE LET parts == Pushed(SplitParagraphs(SplitText(message, {"break"}),
                                             [parts |-> <<>>, currentPart |-> <<>>])).parts
         IN  IF Len(parts) > 1
                THEN [index \in 1..Len(parts) |->
                        parts[index] \o <<Indicator(index, Len(parts))>>]
                ELSE parts

MaxWords == 3

WordLengths == {1500, 5000, 8200}

Separators == {Space, SentenceSpace, ParagraphBreak}

\* texts of up to MaxWords words
RECURSIVE TextsOf(_)
TextsOf(n) ==
    IF n = 1 THEN {<<Word(l)>> : l \in WordLengths}
    ELSE TextsOf(n - 1)
            \cup {t \o <<sep, Word(l)>> :
                    t \in TextsOf(n - 1), sep \in Separators, l \in WordLengths}

Messages == TextsOf(MaxWords)

\* sendMessage is called with a message
InitSplit ==
    /\ citizen = NULL
    /\ states = <<>>
    /\ geocodingCollection = [k \in CacheKeys |-> NULL]
    /\ now = 0
    /\ msgCount = 0
    /\ lastGeocode = NULL
    /\ faults = 0
    /\ \E message \in Messages :
          proc = [p \in Procs |->
                    IF p = 1
                        THEN [IdleProc EXCEPT
                                !.pc = "sendMessage",
                                !.result = [shouldContinue |-> FALSE,
                                            response |-> message,
                                            functionCallResults |-> NULL]]
                        ELSE IdleProc]

\* what the API can answer to one request: an HTTP status, or nothing
\* (a timeout or a network error, error.response undefined)
ApiStatuses == {200, 400, 429, 500, 503}

ApiErrors ==
    {[config |-> "originalRequest"]}
        \cup {[config |-> "originalRequest", response |-> [status |-> status]] :
                status \in ApiStatuses \ {200}}

\* sendMessage: one turn of the loop over splitLongMessage(message), up
\* to the call of whatsappClient.post with the next part
SendMessagePart(p) ==
    /\ proc[p].pc = "sendMessage"
    /\ LET messages == splitLongMessage(proc[p].result.response)
           i == Len(proc[p].sent)
       IN  SetProc(p, [proc[p] EXCEPT
                        !.originalRequest = [body |-> messages[i + 1]],
                        !.retryDelays = <<>>,
                        !.pc = "post"])
    /\ UNCHANGED <<citizen, states, geocodingCollection, now, msgCount, lastGeocode, faults>>

\* the request is sent to the API.  A response goes through the response
\* interceptor unchanged and sendMessage moves to the next part; a failure
\* goes to the interceptor's error handler
Post(p) ==
    /\ proc[p].pc = "post"
    /\ \/ /\ LET messages == splitLongMessage(proc[p].result.response)
                 i == Len(proc[p].sent)
             IN  SetProc(p, [proc[p] EXCEPT
                              !.sent = Append(@, proc[p].originalRequest.body),
                              !.originalRequest = NULL,
                              !.retryDelays = <<>>,
                              !.pc = IF i + 1 = Len(messages) THEN "done"
                                     ELSE "sendMessage"])
          /\ UNCHANGED faults
       \/ /\ faults < MaxFaults
          /\ faults' = faults + 1
          /\ \E error \in ApiErrors :
                SetProc(p, [proc[p] EXCEPT !.error = error, !.pc = "responseError"])
    /\ UNCHANGED <<citizen, states, geocodingCollection, now, msgCount, lastGeocode>>

\* error.response?.status === 429 || error.response?.status >= 500
RetriableStatus(error) ==
    /\ "response" \in DOMAIN error
    /\ error.response.status = 429 \/ error.response.status >= 500

\* !originalRequest._retry: an unset property is undefined
NotRetried(originalRequest) ==
    "_retry" \notin DOMAIN originalRequest \/ ~originalRequest._retry

\* originalRequest._retryCount < 3: undefined < 3 is false
RetryCountBelow(originalRequest, n) ==
    /\ "_retryCount" \in DOMAIN originalRequest
    /\ originalRequest._retryCount < n

\* (originalRequest._retryCount || 0) + 1
NextRetryCount(originalRequest) ==
    (IF "_retryCount" \in DOMAIN originalRequest THEN originalRequest._retryCount ELSE 0) + 1

RECURSIVE Pow(_, _)
Pow(b, e) == IF e = 0 THEN 1 ELSE b * Pow(b, e - 1)

\* the error handler of the response interceptor: the request is sent
\* again after the backoff delay, or the error is rejected to sendMessage
ResponseError(p) ==
    /\ proc[p].pc = "responseError"
    /\ LET originalRequest == proc[p].originalRequest
       IN  SetProc(p,
             IF /\ RetriableStatus(proc[p].error)
                /\ NotRetried(originalRequest)
                /\ RetryCountBelow(originalRequest, 3)
                THEN [proc[p] EXCEPT
                        !.originalRequest =
                            [f \in DOMAIN originalRequest \cup {"_retry", "_retryCount"} |->
                                CASE f = "_retry" -> TRUE
                                  [] f = "_retryCount" -> NextRetryCount(originalRequest)
                                  [] OTHER -> originalRequest[f]],
                        !.retryDelays =
                            Append(@, Pow(2, NextRetryCount(originalRequest)) * 1000),
                        !.error = NULL,
                        !.pc = "post"]
                ELSE [proc[p] EXCEPT !.pc = "done"])
    /\ UNCHANGED <<citizen, states, geocodingCollection, now, msgCount, lastGeocode, faults>>

NextSplit ==
    \/ SendMessagePart(1)
    \/ Post(1)
    \/ ResponseError(1)

SpecSplit == InitSplit /\ [][NextSplit]_vars

(***************************************************************************)
(* Properties.                                                             *)
(***************************************************************************)
Transitioned(i) == states[i].parent # 0

\* C1: state monotonicity.  Every state record that a committed transition
\* created has the single successor of the state it was created from as its
\* stateId (initial -> awaiting_name -> awaiting_village -> completed):
\* no transition repeats a state, skips one or goes back.
C1_StateMonotonicity ==
    \A i \in 1..Len(states) :
        Transitioned(i) =>
            states[i].stateId \in REGISTRATION_STATES[states[i].previousState].nextStates

\* C2: at most one active record.  With the citizen's messages handled one
\* at a time, the states sub-collection never holds two records with
\* isActive = true, also after a failed read in getCurrentState.
C2_AtMostOneActive == Cardinality(ActiveIds(states)) <= 1

\* C3: same-citizen serialization.  With two messages of the citizen
\* handled concurrently and no store operation failing, there are never two
\* active records and never two records created by transitions from the
\* same predecessor.
C3_SameCitizenSerialization ==
    faults = 0 =>
        /\ Cardinality(ActiveIds(states)) <= 1
        /\ \A i, j \in 1..Len(states) :
              Transitioned(i) /\ Transitioned(j) /\ states[i].parent = states[j].parent
                  => i = j

\* positions of a handler between the gate and the end of what the gate
\* guards
GatedPcs ==
    {"updateCitizenData", "completeRegistration", "completeRegistrationTransition",
     "completeStateTransition"}

\* C4: confidence gate.  A step that writes a field to the citizen record
\* or commits a transition on behalf of an extraction is taken only when
\* the combined confidence of that extraction (the extraction confidence,
\* clamped by the geocode confidence / 100 for a village) is above 0.7.
C4_ConfidenceGate ==
    [][\A p \in Procs :
        (/\ proc[p].pc \in GatedPcs
         /\ proc'[p].pc # proc[p].pc
         /\ citizen' # citizen \/ states' # states)
            => proc[p].functionResults.extractedData.confidence > 70]_vars

\* C5: in every reachable state, isRegistered = true implies that
\* userProvidedName and village are both non-null.
C5_RegisteredHasNameAndVillage ==
    (citizen # NULL /\ citizen.isRegistered)
        => Truthy(citizen.userProvidedName) /\ Truthy(citizen.village)

\* C6: after any handled message, a citizen record with userProvidedName
\* and village both non-null has isRegistered = true.
C6_NameAndVillageImplyRegistered ==
    (/\ proc[1].pc = "done"
     /\ citizen # NULL
     /\ Truthy(citizen.userProvidedName)
     /\ Truthy(citizen.village))
        => citizen.isRegistered

\* the rectangle 18.0 <= lat <= 19.5, 73.5 <= lng <= 75.0
InRectangle(coordinates) ==
    /\ 180 <= coordinates.latitude /\ coordinates.latitude <= 195
    /\ 735 <= coordinates.longitude /\ coordinates.longitude <= 750

\* C7: village boundary enforcement.  Every successful outcome of
\* geocodeVillage, computed or served from the cache, has its coordinates
\* inside the rectangle, and so have the coordinates stored in the citizen
\* record.
C7_VillageBoundary ==
    /\ \A p \in Procs :
          (proc[p].geocodeResult # NULL /\ proc[p].geocodeResult.success)
              => InRectangle(proc[p].geocodeResult.coordinates)
    /\ (citizen # NULL /\ citizen.coordinates # NULL)
          => InRectangle(citizen.coordinates)

\* the citizen record holds the coordinates of a computed success, and a
\* later message of the citizen is served the success from the cache
C7_Witness ==
    /\ citizen # NULL /\ citizen.coordinates # NULL
    /\ proc[1].pc = "geocodeReturn"
    /\ ~proc[1].direct
    /\ proc[1].requests = <<>>
    /\ proc[1].geocodeResult.success

\* a direct geocodeVillage call is about to return and an earlier call for
\* the same normalized name returned less than 24 hours ago
SecondCallWithin24h ==
    /\ proc[1].pc = "geocodeReturn"
    /\ proc[1].direct
    /\ lastGeocode # NULL
    /\ CacheKey(lastGeocode.villageName) = CacheKey(proc[1].villageName)
    /\ now - lastGeocode.at < 24

\* C8, as stated: cache idempotence for any outcome.  The second of two
\* geocodeVillage calls for names equal after lower-casing and trimming,
\* less than 24 hours apart, returns the outcome of the first and issues no
\* provider request.
C8_CacheIdempotence ==
    SecondCallWithin24h =>
        /\ proc[1].geocodeResult = lastGeocode.outcome
        /\ proc[1].requests = <<>>

\* C8, amended: a geocodeVillage call whose cache lookup finds an entry
\* cached less than 24 hours ago returns exactly the cached outcome and
\* issues no provider request; a call that issues no provider request
\* returns a success that was in the cache.
C8_FreshEntryServed ==
    \A p \in Procs :
        proc[p].pc = "geocodeReturn" =>
            /\ (proc[p].entryBefore # NULL /\ now - proc[p].entryBefore.cachedAt < 24)
                    => /\ proc[p].geocodeResult = proc[p].entryBefore.result
                       /\ proc[p].requests = <<>>
            /\ proc[p].requests = <<>>
                    => /\ proc[p].entryBefore # NULL
                       /\ proc[p].geocodeResult = proc[p].entryBefore.result
                       /\ proc[p].geocodeResult.success

\* a second call, hours after the first and with the name written
\* differently, is served from the cache
C8_Witness ==
    /\ SecondCallWithin24h
    /\ lastGeocode.villageName # proc[1].villageName
    /\ proc[1].entryBefore # NULL
    /\ now > proc[1].entryBefore.cachedAt
    /\ proc[1].requests = <<>>
    /\ proc[1].geocodeResult = lastGeocode.outcome

\* C9: when the active state is initial, handling a message transitions
\* the citizen to awaiting_name, answers with the welcome message and
\* calls neither the classifier nor the extractor nor the geocoder.
C9_InitialWelcome ==
    (proc[1].pc = "send" /\ proc[1].activeAtEntry = {"initial"})
        => /\ getCurrentState(states, TRUE).stateId = "awaiting_name"
           /\ proc[1].result.response =
                 getWelcomeMessage(proc[1].language,
                                   proc[1].citizenData.whatsappDisplayName)
           /\ proc[1].calls = <<>>

\* registration handling of a message in awaiting_village returns after
\* the geocoder refused the village
GeocodeFailed ==
    /\ proc[1].pc = "send"
    /\ proc[1].currentState.stateId = "awaiting_village"
    /\ proc[1].geocodeResult # NULL
    /\ ~proc[1].geocodeResult.success

\* the reply is the validator's message, the current state is still the
\* awaiting_village record it was, and the citizen record is as it was when
\* the message arrived
GeocodeFailureFrame ==
    /\ proc[1].result.response = proc[1].geocodeResult.message
    /\ getCurrentState(states, TRUE) = proc[1].currentState
    /\ states[proc[1].currentState.id].stateId = "awaiting_village"
    /\ citizen = proc[1].citizenData

\* the active record carries the failed attempt
AttemptRecorded ==
    LET record == states[proc[1].currentState.id]
    IN  /\ record.attempts >= 1
        /\ record.numResults >= 1
        /\ record.lastFunctionCallResult # NULL
        /\ record.lastFunctionCallResult.geocodingError = proc[1].geocodeResult.message

RegistrationReturned ==
    /\ proc[1].pc = "send"
    /\ proc[1].currentState # NULL
    /\ proc[1].result.functionCallResults # NULL

\* C11: in awaiting_name, when the classifier reports has_required_data
\* with confidence above 0.7 and the extractor returns a full_name, then
\* after the message is handled the active state is awaiting_village and
\* citizen.userProvidedName is the extracted full_name.
C11_NameAccepted ==
    (/\ RegistrationReturned
     /\ proc[1].currentState.stateId = "awaiting_name"
     /\ proc[1].result.functionCallResults.shouldTransition
     /\ proc[1].result.functionCallResults.confidence > 70
     /\ proc[1].result.functionCallResults.extractedData # NULL
     /\ Truthy(proc[1].result.functionCallResults.extractedData.full_name))
        => /\ getCurrentState(states, TRUE) # NULL
           /\ getCurrentState(states, TRUE).stateId = "awaiting_village"
           /\ citizen.userProvidedName =
                 proc[1].result.functionCallResults.extractedData.full_name

\* attempts of the handler's state record when the message arrived
AttemptsAtEntry ==
    IF proc[1].currentState.id <= Len(proc[1].statesAtEntry)
        THEN proc[1].statesAtEntry[proc[1].currentState.id].attempts
        ELSE 0

\* registration handling of a message in awaiting_name or awaiting_village
\* has returned, the geocoder refused nothing and the gate failed: the
\* classifier reported has_required_data = false, or a confidence not
\* above 0.7, or nothing was extracted
GateFailed ==
    /\ RegistrationReturned
    /\ proc[1].currentState.stateId \in {"awaiting_name", "awaiting_village"}
    /\ ~Truthy(proc[1].result.functionCallResults.geocodingError)
    /\ \/ ~proc[1].result.functionCallResults.shouldTransition
       \/ proc[1].result.functionCallResults.extractedData = NULL
       \/ proc[1].result.functionCallResults.confidence <= 70

\* the active state is the one the message found, the citizen record is as
\* it was when the message arrived, and the reply is a clarification or the
\* canned retry prompt
GateFailureFrame ==
    /\ getCurrentState(states, TRUE) = proc[1].currentState
    /\ states[proc[1].currentState.id].stateId = proc[1].currentState.stateId
    /\ citizen = proc[1].citizenData
    /\ proc[1].result.response \in
          {ContextualResponse,
           getRetryPromptForState(proc[1].currentState.stateId, proc[1].language)}

C13_CompletionReply ==
    (/\ proc[1].pc = "send"
     /\ proc[1].result.response.text = "registration_complete")
        => /\ citizen.isRegistered
           /\ getCurrentState(states, TRUE) # NULL
           /\ getCurrentState(states, TRUE).stateId = "completed"
           /\ proc[1].result.response.name = citizen.userProvidedName
           /\ proc[1].result.response.village = citizen.village

\* registration handling of a message has returned after the state
\* analysis call threw, or after geocodeVillage ended in its catch block
ProviderFailed ==
    /\ proc[1].pc = "send"
    /\ proc[1].currentState # NULL
    /\ \/ proc[1].classifierThrew
       \/ /\ proc[1].geocodeResult # NULL
          /\ ~proc[1].geocodeResult.success
          /\ proc[1].geocodeResult.error = "Geocoding service error"

\* the handler's state record is as it was when the message arrived
StateRecordUntouched ==
    LET record == states[proc[1].currentState.id]
    IN  /\ record.isActive
        /\ record.stateId = proc[1].currentState.stateId
        /\ record.attempts = AttemptsAtEntry
        /\ record.numResults =
              (IF proc[1].currentState.id <= Len(proc[1].statesAtEntry)
                  THEN proc[1].statesAtEntry[proc[1].currentState.id].numResults
                  ELSE 0)

\* C14: when the classifier call or the geocoding call fails with an
\* unexpected error while a message is handled, the reply is a localized
\* technical-issue message and nothing is mutated: the state record
\* (stateId, isActive, attempts, functionCallResults) and the citizen
\* record are as before the message.
C14_ProviderFailure ==
    ProviderFailed =>
        /\ proc[1].result.response \in
              {TechnicalIssue(proc[1].language),
               ServiceErrorOutcome(proc[1].language).message}
        /\ StateRecordUntouched
        /\ citizen = proc[1].citizenData

\* C15: every inbound message handled by processMessage results in at
\* least one reply sent to the citizen: no handling of a message ends
\* without a text handed to sendMessage.
C15_AlwaysReplies ==
    \A p \in Procs : proc[p].pc = "done" => proc[p].sent # <<>>

\* a state record with stateId completed has been committed
CompletedCommitted ==
    \E i \in 1..Len(states) : states[i].stateId = "completed"

\* C16: completed is terminal.  Once a completed record has been committed,
\* no step of the handling of the citizen's messages, handled one after the
\* other, creates a state record or changes a registration field of the
\* citizen record.
C16_CompletedTerminal ==
    [][CompletedCommitted => (Len(states') = Len(states) /\ citizen' = citizen)]_vars

\* a message that arrived after the completed record was committed has been
\* answered
C16_Witness ==
    /\ CompletedCommitted
    /\ proc[1].pc = "done"
    /\ "completed" \in proc[1].activeAtEntry
    /\ proc[1].sent = <<[text |-> "answer"]>>

\* positions of a handler about to commit a transition caused by an
\* extraction
TransitionPcs == {"completeStateTransition", "completeRegistrationTransition"}

\* C17: every committed transition is one atomic unit.  No reachable state
\* has a record inactive without the record the transition created, and a
\* transition out of awaiting_name or awaiting_village leaves the
\* deactivated record with the extracted data that caused it.
C17_AtomicStampedTransition ==
    [][/\ \A i \in 1..Len(states') :
             ~states'[i].isActive => \E j \in 1..Len(states') : states'[j].parent = i
       /\ \A p \in Procs :
             (/\ proc[p].pc \in TransitionPcs
              /\ proc'[p].pc # proc[p].pc
              /\ Len(states') > Len(states)
              /\ proc[p].currentState.stateId \in {"awaiting_name", "awaiting_village"})
                 => states'[proc[p].currentState.id].extractedData =
                        proc[p].functionResults.extractedData]_vars

\* C18: when the handling of a message finds more than one active state
\* record, the message's processing is aborted: no step of that handling
\* changes the state records or the citizen record.
C18_AbortOnSeveralActive ==
    [][\A p \in Procs :
          (/\ proc[p].pc # "idle"
           /\ Cardinality(ActiveIds(proc[p].statesAtEntry)) > 1)
              => (states' = states /\ citizen' = citizen)]_vars

\* C19: when registration handling finds no active state record for an
\* unregistered citizen, it creates a record with stateId initial, and the
\* message is answered with the welcome prompt without a classification.
C19_MissingStateBecomesInitial ==
    (/\ proc[1].pc = "send"
     /\ ~proc[1].citizenData.isRegistered
     /\ ActiveIds(proc[1].statesAtEntry) = {})
        => /\ Len(states) > Len(proc[1].statesAtEntry)
           /\ states[Len(proc[1].statesAtEntry) + 1].stateId = "initial"
           /\ proc[1].result.response =
                 getWelcomeMessage(proc[1].language,
                                   proc[1].citizenData.whatsappDisplayName)
           /\ proc[1].calls = <<>>

\* the handler's state record has been deactivated by a transition
StateAdvanced == ~states[proc[1].currentState.id].isActive

\* an extracted field of the citizen record differs from what it was when
\* the message arrived
FieldWritten ==
    \/ citizen.userProvidedName # proc[1].citizenData.userProvidedName
    \/ citizen.village # proc[1].citizenData.village
    \/ citizen.coordinates # proc[1].citizenData.coordinates
    \/ citizen.taluka # proc[1].citizenData.taluka

\* C20: no partial transition.  After registration handling of a message
\* in awaiting_name or awaiting_village, also when a store write failed
\* midway, the citizen-record merge and the state transition have both
\* taken effect or neither has.
C20_NoPartialTransition ==
    (/\ RegistrationReturned
     /\ proc[1].currentState.stateId \in {"awaiting_name", "awaiting_village"})
        => (StateAdvanced <=> FieldWritten)

\* the step of handler p calls the provider named stage
Calls(p, stage) ==
    /\ Len(proc'[p].calls) = Len(proc[p].calls) + 1
    /\ proc'[p].calls[Len(proc'[p].calls)] = stage

\* C21: pipeline ordering within one message.  The classifier is called
\* first; the extractor is called only after the classifier returned
\* has_required_data = true; the geocoder is called only after the
\* extractor returned a non-empty village_name in awaiting_village, never
\* in awaiting_name; each stage starts after the preceding one returned.
C21_PipelineOrdering ==
    [][\A p \in Procs :
          /\ Calls(p, "classifier") => proc[p].calls = <<>>
          /\ Calls(p, "extractor") =>
                /\ proc[p].calls = <<"classifier">>
                /\ proc[p].stateAnalysis # NULL
                /\ proc[p].stateAnalysis.has_required_data
          /\ Calls(p, "geocoder") =>
                /\ proc[p].calls = <<"classifier", "extractor">>
                /\ proc[p].currentState.stateId = "awaiting_village"
                /\ proc[p].extractedData # NULL
                /\ Truthy(proc[p].extractedData.village_name)]_vars

\* a message in awaiting_village went through the three stages
C21_Witness ==
    /\ proc[1].calls = <<"classifier", "extractor", "geocoder">>
    /\ proc[1].currentState.stateId = "awaiting_village"
    /\ proc[1].pc = "send"

\* what extractRegistrationData returned to handler p
Extracted(p) ==
    IF proc[p].pc = "getCachedGeocode" THEN proc[p].extractedData
    ELSE proc[p].functionResults.extractedData

\* C22: extractRegistrationData dispatches on the current state only.  In
\* awaiting_name it asks the provider for the name-shaped extraction, in
\* awaiting_village for the village-shaped one, and in every other state
\* (initial, completed) it returns null without a provider request; the
\* call returns null or an extraction, never an exception.
C22_ExtractionDispatch ==
    proc[1].pc \in {"getCachedGeocode", "updateStateRead"} =>
        CASE proc[1].currentState.stateId = "awaiting_name" ->
                /\ proc[1].calls = <<"classifier", "extractor">>
                /\ Extracted(1) \in {NULL} \cup NameExtractions
          [] proc[1].currentState.stateId = "awaiting_village" ->
                /\ proc[1].calls = <<"classifier", "extractor">>
                /\ Extracted(1) \in {NULL} \cup VillageExtractions
          [] OTHER ->
                /\ proc[1].calls = <<"classifier">>
                /\ Extracted(1) = NULL

\* the extraction was asked for in state completed and answered null
\* without a provider request
C22_Witness ==
    /\ proc[1].pc = "updateStateRead"
    /\ proc[1].currentState.stateId = "completed"
    /\ proc[1].functionResults.shouldTransition
    /\ proc[1].calls = <<"classifier">>
    /\ proc[1].functionResults.extractedData = NULL

\* C23: when the provider request of every query template fails with an
\* error, geocodeVillage returns the service-error outcome (error
\* 'Geocoding service error' with the technical-issue message), not the
\* not-found outcome.
C23_AllTemplatesFailed ==
    \A p \in Procs :
        (proc[p].pc = "geocodeReturn" /\ proc[p].failedRequests = 4)
            => proc[p].geocodeResult = ServiceErrorOutcome(proc[p].language)

C25_BestCandidateKept ==
    \A p \in Procs :
        (proc[p].pc \in {"geocodeFinish", "geocodeReturn"}
            /\ proc[p].requests # <<>>
            /\ proc[p].seenBest # NULL)
            => /\ proc[p].bestResult = proc[p].seenBest.result
               /\ proc[p].highestScore = proc[p].seenBest.score
               /\ proc[p].pc = "geocodeReturn" =>
                     proc[p].geocodeResult # NotFoundOutcome(proc[p].language)

\* handler p is where getCachedGeocode has just returned
LookupDone(p) ==
    /\ proc[p].requests = <<>>
    /\ \/ proc[p].pc = "geocodeReturn"
       \/ proc[p].pc = "geocodeQuery" /\ proc[p].queryIndex = 1

\* the lookup of handler p found an entry of 24 hours or more
FoundExpired(p) ==
    /\ proc[p].entryBefore # NULL
    /\ now - proc[p].entryBefore.cachedAt >= 24

\* what the lookup served is an entry younger than 24 hours, stored under
\* the lower-cased, trimmed name
ServedFresh(p) ==
    proc[p].pc = "geocodeReturn" =>
        /\ proc[p].entryBefore # NULL
        /\ now - proc[p].entryBefore.cachedAt < 24
        /\ proc[p].geocodeResult = proc[p].entryBefore.result
        /\ trim(toLowerCase(proc[p].entryBefore.villageName))
              = trim(toLowerCase(proc[p].villageName))

C27_OnlySuccessesCached ==
    \A k \in CacheKeys :
        geocodingCollection[k] # NULL =>
            /\ geocodingCollection[k].result.success
            /\ InRectangle(geocodingCollection[k].result.coordinates)

\* a call that went to the provider returns an out-of-boundary failure
\* while the cache holds the success of an earlier call, untouched
C27_Witness ==
    /\ proc[1].pc = "geocodeReturn"
    /\ proc[1].requests = <<1, 2, 3, 4>>
    /\ ~proc[1].geocodeResult.success
    /\ proc[1].geocodeResult.error = "Village not in Pune ZP"
    /\ lastGeocode # NULL
    /\ lastGeocode.outcome.success
    /\ geocodingCollection[CacheKey(proc[1].villageName)] # NULL
    /\ geocodingCollection[CacheKey(proc[1].villageName)].result = lastGeocode.outcome

\* C28: the confidence of a successful GeocodeOutcome lies in 0..100, so
\* that confidence / 100 lies in 0..1.
C28_ConfidenceRange ==
    \A p \in Procs :
        (proc[p].geocodeResult # NULL /\ proc[p].geocodeResult.success)
            => /\ 0 <= proc[p].geocodeResult.confidence
               /\ proc[p].geocodeResult.confidence <= 100

\* C29: on geocode success the confidence of the extraction payload
\* becomes min(extraction confidence, geocode confidence / 100), never
\* above the extraction confidence, and a geocode confidence below 70
\* keeps the village from being accepted: no step then writes the citizen
\* record or commits a transition for it.
C29_ClampedConfidence ==
    [][\A p \in Procs :
          /\ (/\ proc[p].pc = "geocodeReturn"
              /\ ~proc[p].direct
              /\ proc[p].geocodeResult.success
              /\ proc'[p].pc # proc[p].pc)
                => /\ proc'[p].functionResults.extractedData.confidence =
                         Min(proc[p].extractedData.confidence,
                             proc[p].geocodeResult.confidence)
                   /\ proc'[p].functionResults.extractedData.confidence
                         <= proc[p].extractedData.confidence
          /\ (/\ proc[p].pc \in GatedPcs
              /\ proc'[p].pc # proc[p].pc
              /\ citizen' # citizen \/ states' # states
              /\ proc[p].currentState.stateId = "awaiting_village"
              /\ proc[p].geocodeResult # NULL
              /\ proc[p].geocodeResult.success)
                => proc[p].geocodeResult.confidence >= 70]_vars

\* C30: extractAdministrativeDetails gives each administrative level
\* (village, taluka, district, state, country, pincode) the long_name of
\* the first address component, in provider order, whose types match the
\* level; a later matching component does not overwrite it.
LevelTypes ==
    [village |-> {"locality", "sublocality"},
     taluka |-> {"administrative_area_level_3"},
     district |-> {"administrative_area_level_2"},
     state |-> {"administrative_area_level_1"},
     country |-> {"country"},
     pincode |-> {"postal_code"}]

FirstMatching(components, level) ==
    LET matching == {i \in 1..Len(components) :
                        components[i].types \cap LevelTypes[level] # {}}
    IN  IF matching = {} THEN NULL
        ELSE components[CHOOSE i \in matching : \A j \in matching : i <= j].long_name

C30_FirstComponentWins ==
    \A p \in Procs :
        (/\ proc[p].pc = "geocodeReturn"
         /\ proc[p].geocodeResult.success)
            => \A level \in DOMAIN LevelTypes :
                  proc[p].geocodeResult.administrative[level] =
                      FirstMatching(proc[p].bestResult.address_components, level)

\* C31: a message of a citizen whose record read isRegistered = false
\* reaches the conversation for registered users only through the
\* completion branch of the registration handling of that same message:
\* shouldContinue is true only in the result of that branch (the gate
\* passed and the next state is completed), and with any other result
\* processMessage returns after the registration reply.
CompletionBranchTaken(result) ==
    /\ result.functionCallResults # NULL
    /\ GatePasses(result.functionCallResults)
    /\ result.functionCallResults.nextState = "completed"

Answered(p) ==
    \/ proc[p].pc = "qa"
    \/ \E i \in 1..Len(proc[p].sent) : proc[p].sent[i] = [text |-> "answer"]

ActiveCompleted ==
    /\ ActiveIds(states) # {}
    /\ states[Latest(ActiveIds(states))].stateId = "completed"

C32_RegisteredIffCompleted ==
    (/\ \A p \in Procs : proc[p].pc = "idle"
     /\ citizen # NULL)
        => (citizen.isRegistered <=> ActiveCompleted)

\* C33: in every reachable state, a citizen whose active state is
\* awaiting_village or completed has a userProvidedName, and a citizen
\* whose active state is initial or awaiting_name has no village; also
\* when the extractor returns an empty full_name or the citizen update
\* fails.
C33_StateDataConsistency ==
    citizen # NULL =>
        \A i \in ActiveIds(states) :
            /\ states[i].stateId \in {"awaiting_village", "completed"}
                    => Truthy(citizen.userProvidedName)
            /\ states[i].stateId \in {"initial", "awaiting_name"}
                    => citizen.village = NULL

\* C34: for every state record, attempts equals the number of entries in
\* functionCallResults, after any sequence and any interleaving of
\* updateStateWithFunctionResults calls on the record.
C34_AttemptsCountResults ==
    \A i \in 1..Len(states) : states[i].attempts = states[i].numResults

\* C35: in every handled registration message the writes to the citizen
\* record and the state transition are committed before the reply is
\* sent: whoever writes has neither a result to send nor sent anything,
\* and the steps from the send on, a failed send and the fallback
\* included, leave the citizen record and the state records as committed.
ReplyPcs == {"send", "fallback", "done"}

C35_CommitBeforeReply ==
    [][\A p \in Procs :
          proc'[p] # proc[p] =>
              /\ (citizen' # citizen \/ states' # states)
                    => /\ proc[p].result = NULL
                       /\ proc[p].sent = <<>>
                       /\ proc[p].pc \notin ReplyPcs
              /\ proc[p].pc \in ReplyPcs
                    => /\ citizen' = citizen
                       /\ states' = states]_vars

\* the state has advanced to a state whose prompt the citizen never
\* received: the send of the registration reply failed
C35_Witness ==
    /\ proc[1].pc = "done"
    /\ proc[1].result # NULL
    /\ ~proc[1].result.shouldContinue
    /\ \A i \in 1..Len(proc[1].sent) : proc[1].sent[i] # proc[1].result.response
    /\ proc[1].currentState # NULL
    /\ ~states[proc[1].currentState.id].isActive
    /\ \E i \in ActiveIds(states) : states[i].parent = proc[1].currentState.id

\* C36: splitLongMessage returns an ordered list of parts, each of which,
\* the part indicator included, fits the 4096-character limit; a message
\* of at most 4000 characters is returned as a single unchanged part; a
\* single word longer than 4000 characters is cut so that no part exceeds
\* the limit.
WhatsAppLimit == 4096

\* the text of the parts in order, without indicators and whitespace
RECURSIVE WordLengthOf(_)
WordLengthOf(text) ==
    IF text = <<>> THEN 0
    ELSE (IF Head(text).kind = "word" THEN Head(text).len ELSE 0)
            + WordLengthOf(Tail(text))

RECURSIVE TotalWordLength(_)
TotalWordLength(parts) ==
    IF parts = <<>> THEN 0
    ELSE WordLengthOf(Head(parts)) + TotalWordLength(Tail(parts))

C36_PartsFitLimit ==
    \A p \in Procs :
        proc[p].result # NULL /\ proc[p].sent # <<>>
            => LET message == proc[p].result.response
                   parts == splitLongMessage(message)
               IN  /\ \A i \in 1..Len(parts) : Length(parts[i]) <= WhatsAppLimit
                   /\ Length(message) <= MAX_LENGTH => parts = <<message>>
                   /\ TotalWordLength(parts) = WordLengthOf(message)
                   /\ proc[p].sent = SubSeq(parts, 1, Len(proc[p].sent))

\* C37: the response interceptor sends a request that failed with HTTP 429
\* or a 5xx status again, after an exponential backoff delay, at most 3
\* times, and then rejects; the first failure of a request is retried.
MaxRetries == 3

C37_RetryWithBackoff ==
    [][\A p \in Procs :
          (/\ proc[p].pc = "responseError"
           /\ proc'[p] # proc[p]
           /\ RetriableStatus(proc[p].error))
                => IF Len(proc[p].retryDelays) < MaxRetries
                      THEN /\ proc'[p].pc = "post"
                           /\ proc'[p].originalRequest.body = proc[p].originalRequest.body
                           /\ proc'[p].retryDelays =
                                Append(proc[p].retryDelays,
                                       Pow(2, Len(proc[p].retryDelays) + 1) * 1000)
                      ELSE /\ proc'[p].pc = "done"
                           /\ proc'[p].retryDelays = proc[p].retryDelays]_vars

====
